---- MODULE Spec2Model ----
(***************************************************************************)
(* The session subsystem of Morditux/serverlib: the in-memory session      *)
(* store (sessions/memorysession.go), the session objects it holds, and    *)
(* the resolver Server.GetSession (server/server.go) that binds a request  *)
(* to a session through a cookie.                                          *)
(*                                                                         *)
(* Every goroutine that calls into the subsystem is a process.  A call is  *)
(* modelled statement by statement: each acquisition of a sync.RWMutex,    *)
(* each access of a Go map and each deferred release is one step, so that  *)
(* calls interleave exactly where the Go scheduler may interleave them.    *)
(* An access of a Go map that overlaps a write of the same map is a data   *)
(* race: its outcome is any map value, or the runtime's fatal error.       *)
(***************************************************************************)
EXTENDS Integers, Sequences, FiniteSets, TLC

\* ---------------------------------------------------------------- bounds
NumProcs == 2       \* concurrent callers (goroutines)
MaxIds == 3         \* ids the generator hands out, hence session objects
NumForged == 1      \* id values clients make up (never generated)
NumKeys == 1        \* keys of a session's data
NumVals == 2        \* values of a session's data
MaxCalls == 4       \* calls made in one run

Procs == 1..NumProcs
Forged == {0 - k : k \in 1..NumForged}
GenIds == 1..MaxIds
AllIds == Forged \cup GenIds
Refs == 1..MaxIds
Keys == 1..NumKeys
Values == 1..NumVals

\* nil: the nil Session, the zero value of `any`, the empty string
Nil == 0
\* a Session implementation that is not *MemorySession
ForeignSess == 0 - 1

\* ------------------------------------------------------ program constants
SessionKey == "sid"
OtherCookie == "lang"
MaxAge == 3600 * 24 * 7

VARIABLES
    sessions,   \* MemorySessions.sessions : id -> reference of a MemorySession
    smut,       \* MemorySessions.mut
    heap,       \* the MemorySession objects allocated so far, by reference
    nextId,     \* the next value of the id generator (uuid.New)
    crashed,    \* the Go runtime has stopped the program (fatal error)
    pc,         \* per process: the statement it is at
    frame,      \* per process: the locals of the call it is in
    known,      \* references handed back to callers so far
    hist,       \* history: per id, the last write of the store's map in lock
                \* order: a Set and its session, or a Delete and what it removed,
                \* and the call the entry goes back to
    written,    \* history: per session and key, the value of the last Set
    calls       \* history: the number of calls made so far

vars ==
    <<sessions, smut, heap, nextId, crashed, pc, frame, known, hist, written, calls>>

\* ------------------------------------------------------------- Go maps
EmptyMap == [x \in {} |-> Nil]

MapGet(m, k) ==
    IF k \in DOMAIN m THEN [v |-> m[k], ok |-> TRUE] ELSE [v |-> Nil, ok |-> FALSE]

MapSet(m, k, v) == [x \in (DOMAIN m) \cup {k} |-> IF x = k THEN v ELSE m[x]]

MapDelete(m, k) == [x \in (DOMAIN m) \ {k} |-> m[x]]

Maps(D, R) == UNION {[S -> R] : S \in SUBSET D}

\* ------------------------------------------------------- sync.RWMutex
NewRWMutex == [r |-> {}, w |-> {}]

\* Mutant of CanRLock: a reader does not wait for the writer.
CanRLock_overWriter(m) == TRUE

CanRLock(m) == m.w = {}

\* Mutant of CanLock: a writer does not wait for the readers.
CanLock_overReaders(m) == m.w = {}

CanLock(m) == m.w = {} /\ m.r = {}

RLock(m, p) == [m EXCEPT !.r = @ \cup {p}]

RUnlock(m, p) == [m EXCEPT !.r = @ \ {p}]

Lock(m, p) == [m EXCEPT !.w = @ \cup {p}]

Unlock(m, p) == [m EXCEPT !.w = @ \ {p}]
\* Mutant of NewMemorySession: the id is not kept in the session.
NewMemorySession_blank(id) == [id |-> Nil, data |-> EmptyMap, mut |-> NewRWMutex]

\* ------------------------------------------------------ session objects
NewMemorySession(id) == [id |-> id, data |-> EmptyMap, mut |-> NewRWMutex]

Id(ref) == heap[ref].id

\* ------------------------------------------------- requests, responses
\* A request carries at most one cookie here; r.Cookie(name) fails when the
\* request has no cookie of that name.
NoCookies == {}

Cookie(r, name) ==
    IF \E c \in r : c.name = name
    THEN [err |-> FALSE, value |-> (CHOOSE c \in r : c.name = name).value]
    ELSE [err |-> TRUE, value |-> Nil]

SetCookie(w, c) == w \cup {c}

NewCookie(id) ==
    [Name |-> SessionKey, Value |-> id, HttpOnly |-> TRUE, MaxAge |-> MaxAge]

\* ---------------------------------------------------------- callers
\* Ids are bearer tokens out of a generator whose values cannot be guessed:
\* a caller passes an id it made up or the id of a session it was handed.
KnownIds == Forged \cup {Id(ref) : ref \in known}

Requests ==
    {NoCookies} \cup {{[name |-> SessionKey, value |-> v]} : v \in KnownIds}
                \cup {{[name |-> OtherCookie, value |-> v]} : v \in Forged}

IdleFrame ==
    [op |-> "none", r |-> NoCookies, id |-> Nil, sess |-> Nil, ok |-> FALSE,
     key |-> Nil, val |-> Nil, w |-> {}, panic |-> FALSE]

\* Calls in flight that will allocate a session object.
Allocating == {q \in Procs : frame[q].op \in {"GetSession", "New"} /\ pc[q] # "ret"}

CanAllocate == Len(heap) + Cardinality(Allocating) < MaxIds

Init ==
    /\ sessions = EmptyMap
    /\ smut = NewRWMutex
    /\ heap = <<>>
    /\ nextId = 1
    /\ crashed = FALSE
    /\ pc = [p \in Procs |-> "idle"]
    /\ frame = [p \in Procs |-> IdleFrame]
    /\ known = {}
    /\ hist = EmptyMap
    /\ written = <<>>
    /\ calls = 0

\* ------------------------------------------------------------ helpers
At(p, l) == ~crashed /\ pc[p] = l

Goto(p, l) == pc' = [pc EXCEPT ![p] = l]

\* Processes other than p inside a critical section of the store's map.
StoreWriters(p) ==
    {q \in Procs \ {p} : pc[q] \in {"Set_write", "Set_Unlock", "Del_write", "Del_Unlock"}}

StoreReaders(p) == {q \in Procs \ {p} : pc[q] \in {"Get_read", "Get_RUnlock"}}

\* Processes other than p inside a critical section of the data of `ref`.
DataWriters(p, ref) ==
    {q \in Procs \ {p} : frame[q].sess = ref /\ pc[q] \in {"SSet_write", "SSet_Unlock"}}

DataReaders(p, ref) ==
    {q \in Procs \ {p} : frame[q].sess = ref /\ pc[q] \in {"SGet_read", "SGet_RUnlock"}}

\* Mutant of NewUUID: the generator repeats itself.
NewUUID_repeat == IF nextId > 1 THEN nextId - 1 ELSE nextId

\* uuid.New().String(): a value never produced before.
NewUUID == nextId

\* Mutant of StoreLookup: the lookup never finds the id.
StoreLookup_miss(m, id) == [v |-> Nil, ok |-> FALSE]

\* Mutant of StoreLookup: the map's "ok" is dropped, every lookup is a hit.
StoreLookup_found(m, id) ==
    [v |-> IF id \in DOMAIN m THEN m[id] ELSE Nil, ok |-> TRUE]

\* The map statements of memorysession.go.
StoreLookup(m, id) == MapGet(m, id)
\* Mutant of StoreInsert: the entry goes into a copy of the map and is lost.
StoreInsert_lost(m, id, session) == m

\* Mutant of StoreInsert: the map is made anew around the entry.
StoreInsert_reset(m, id, session) == [x \in {id} |-> session]

StoreInsert(m, id, session) == MapSet(m, id, session)

\* Mutant of StoreRemove: the entry stays.
StoreRemove_noop(m, id) == m

StoreRemove(m, id) == MapDelete(m, id)

\* Mutant of DataLookup: the zero value of a missing key is reported found.
DataLookup_found(d, key) ==
    [v |-> IF key \in DOMAIN d THEN d[key] ELSE Nil, ok |-> TRUE]

DataLookup(d, key) == MapGet(d, key)

\* Mutant of DataStore: a key that has a value keeps it.
DataStore_keep(d, key, value) == IF key \in DOMAIN d THEN d ELSE MapSet(d, key, value)

DataStore(d, key, value) == MapSet(d, key, value)

\* ------------------------------------------------- the calls callers make
CallGetSession(p, r) ==
    /\ At(p, "idle") /\ calls < MaxCalls /\ calls' = calls + 1 /\ CanAllocate
    /\ frame' = [frame EXCEPT ![p] = [IdleFrame EXCEPT !.op = "GetSession", !.r = r]]
    /\ Goto(p, "GS_cookie")
    /\ UNCHANGED <<sessions, smut, heap, nextId, crashed, known, hist, written>>

CallStoreGet(p, id) ==
    /\ At(p, "idle") /\ calls < MaxCalls /\ calls' = calls + 1
    /\ frame' = [frame EXCEPT ![p] = [IdleFrame EXCEPT !.op = "Get", !.id = id]]
    /\ Goto(p, "Get_RLock")
    /\ UNCHANGED <<sessions, smut, heap, nextId, crashed, known, hist, written>>

CallStoreSet(p, id, session) ==
    /\ At(p, "idle") /\ calls < MaxCalls /\ calls' = calls + 1
    /\ frame' = [frame EXCEPT ![p] =
                    [IdleFrame EXCEPT !.op = "Set", !.id = id, !.sess = session]]
    /\ Goto(p, "Set_Lock")
    /\ UNCHANGED <<sessions, smut, heap, nextId, crashed, known, hist, written>>

CallStoreDelete(p, id) ==
    /\ At(p, "idle") /\ calls < MaxCalls /\ calls' = calls + 1
    /\ frame' = [frame EXCEPT ![p] = [IdleFrame EXCEPT !.op = "Delete", !.id = id]]
    /\ Goto(p, "Del_Lock")
    /\ UNCHANGED <<sessions, smut, heap, nextId, crashed, known, hist, written>>

\* ------------------------------------------------- MemorySessions.Get
Get_RLock(p) ==
    /\ At(p, "Get_RLock") /\ CanRLock(smut)
    /\ smut' = RLock(smut, p)
    /\ Goto(p, "Get_read")
    /\ UNCHANGED <<sessions, heap, nextId, crashed, frame, known, hist, written, calls>>

Get_read(p) ==
    /\ At(p, "Get_read")
    /\ IF StoreWriters(p) # {}
       THEN \/ crashed' = TRUE /\ frame' = frame
            \/ /\ crashed' = crashed
               /\ \E v \in Refs \cup {Nil}, b \in BOOLEAN :
                      frame' = [frame EXCEPT ![p].sess = v, ![p].ok = b]
       ELSE /\ crashed' = crashed
            /\ LET g == StoreLookup(sessions, frame[p].id) IN
               frame' = [frame EXCEPT ![p].sess = g.v, ![p].ok = g.ok]
    /\ Goto(p, "Get_RUnlock")
    /\ UNCHANGED <<sessions, smut, heap, nextId, known, hist, written, calls>>
\* Mutant of Get_RUnlock: the read lock is not released.
Get_RUnlock_leak(p) ==
    /\ At(p, "Get_RUnlock")
    /\ smut' = smut
    /\ Goto(p, IF frame[p].op = "GetSession" /\ ~frame[p].ok THEN "GS_new" ELSE "ret")
    /\ UNCHANGED <<sessions, heap, nextId, crashed, frame, known, hist, written, calls>>

Get_RUnlock(p) ==
    /\ At(p, "Get_RUnlock")
    /\ smut' = RUnlock(smut, p)
    /\ Goto(p, IF frame[p].op = "GetSession" /\ ~frame[p].ok THEN "GS_new" ELSE "ret")
    /\ UNCHANGED <<sessions, heap, nextId, crashed, frame, known, hist, written, calls>>

\* ------------------------------------------------- MemorySessions.Set
\* History: the call that first put the entry of id there, since the last
\* Delete of id.
Origin(id, op) ==
    IF op = "GetSession" THEN "GetSession"
    ELSE IF id \in DOMAIN hist /\ hist[id].op = "Set" THEN hist[id].origin
    ELSE "Set"

Set_Lock(p) ==
    /\ At(p, "Set_Lock") /\ CanLock(smut)
    /\ smut' = Lock(smut, p)
    /\ Goto(p, "Set_write")
    /\ UNCHANGED <<sessions, heap, nextId, crashed, frame, known, hist, written, calls>>

Set_write(p) ==
    /\ At(p, "Set_write")
    /\ IF frame[p].sess = ForeignSess
       THEN /\ frame' = [frame EXCEPT ![p].panic = TRUE]
            /\ UNCHANGED <<sessions, crashed, hist>>
       ELSE /\ frame' = frame
            /\ hist' = MapSet(hist, frame[p].id,
                              [op |-> "Set", sess |-> frame[p].sess,
                               origin |-> Origin(frame[p].id, frame[p].op)])
            /\ IF StoreWriters(p) \cup StoreReaders(p) # {}
               THEN \/ crashed' = TRUE /\ sessions' = sessions
                    \/ crashed' = crashed /\ sessions' \in Maps(AllIds, Refs)
               ELSE /\ crashed' = crashed
                    /\ sessions' = StoreInsert(sessions, frame[p].id, frame[p].sess)
    /\ Goto(p, "Set_Unlock")
    /\ UNCHANGED <<smut, heap, nextId, known, written, calls>>

\* Mutant of Set_Unlock: the release is not deferred, a panic skips it.
Set_Unlock_nodefer(p) ==
    /\ At(p, "Set_Unlock")
    /\ smut' = IF frame[p].panic THEN smut ELSE Unlock(smut, p)
    /\ Goto(p, IF frame[p].op = "GetSession" /\ ~frame[p].panic
               THEN "GS_setcookie" ELSE "ret")
    /\ UNCHANGED <<sessions, heap, nextId, crashed, frame, known, hist, written, calls>>

Set_Unlock(p) ==
    /\ At(p, "Set_Unlock")
    /\ smut' = Unlock(smut, p)
    /\ Goto(p, IF frame[p].op = "GetSession" /\ ~frame[p].panic
               THEN "GS_setcookie" ELSE "ret")
    /\ UNCHANGED <<sessions, heap, nextId, crashed, frame, known, hist, written, calls>>

\* ---------------------------------------------- MemorySessions.Delete
Del_Lock(p) ==
    /\ At(p, "Del_Lock") /\ CanLock(smut)
    /\ smut' = Lock(smut, p)
    /\ Goto(p, "Del_write")
    /\ UNCHANGED <<sessions, heap, nextId, crashed, frame, known, hist, written, calls>>

Del_write(p) ==
    /\ At(p, "Del_write")
    /\ IF StoreWriters(p) \cup StoreReaders(p) # {}
       THEN \/ crashed' = TRUE /\ sessions' = sessions
            \/ crashed' = crashed /\ sessions' \in Maps(AllIds, Refs)
       ELSE /\ crashed' = crashed
            /\ sessions' = StoreRemove(sessions, frame[p].id)
    /\ hist' = MapSet(hist, frame[p].id,
                      [op |-> "Delete", sess |-> MapGet(sessions, frame[p].id).v,
                       origin |-> "Delete"])
    /\ Goto(p, "Del_Unlock")
    /\ UNCHANGED <<smut, heap, nextId, frame, known, written, calls>>

Del_Unlock(p) ==
    /\ At(p, "Del_Unlock")
    /\ smut' = Unlock(smut, p)
    /\ Goto(p, "ret")
    /\ UNCHANGED <<sessions, heap, nextId, crashed, frame, known, hist, written, calls>>

\* ------------------------------------------------- Server.GetSession
GS_cookie(p) ==
    /\ At(p, "GS_cookie")
    /\ LET c == Cookie(frame[p].r, SessionKey) IN
       IF c.err
       THEN /\ frame' = [frame EXCEPT ![p].sess = Nil, ![p].ok = FALSE]
            /\ Goto(p, "ret")
       ELSE /\ frame' = [frame EXCEPT ![p].id = c.value]
            /\ Goto(p, "Get_RLock")
    /\ UNCHANGED <<sessions, smut, heap, nextId, crashed, known, hist, written, calls>>
\* Mutant of GS_new: the new id goes to the session only; the key handed to
\* Set and to the cookie stays the value the request came with.
GS_new_stalekey(p) ==
    /\ At(p, "GS_new")
    /\ heap' = Append(heap, NewMemorySession(NewUUID))
    /\ nextId' = nextId + 1
    /\ frame' = [frame EXCEPT ![p].sess = Len(heap) + 1]
    /\ written' = Append(written, EmptyMap)
    /\ Goto(p, "Set_Lock")
    /\ UNCHANGED <<sessions, smut, crashed, known, hist, calls>>

\* Mutant of GS_new: the new session keeps the id the cookie carried.
GS_new_fixation(p) ==
    /\ At(p, "GS_new")
    /\ heap' = Append(heap, NewMemorySession(frame[p].id))
    /\ nextId' = nextId
    /\ frame' = [frame EXCEPT ![p].sess = Len(heap) + 1]
    /\ written' = Append(written, EmptyMap)
    /\ Goto(p, "Set_Lock")
    /\ UNCHANGED <<sessions, smut, crashed, known, hist, calls>>

GS_new(p) ==
    /\ At(p, "GS_new")
    /\ heap' = Append(heap, NewMemorySession(NewUUID))
    /\ nextId' = nextId + 1
    /\ frame' = [frame EXCEPT ![p].id = NewUUID, ![p].sess = Len(heap) + 1]
    /\ written' = Append(written, EmptyMap)
    /\ Goto(p, "Set_Lock")
    /\ UNCHANGED <<sessions, smut, crashed, known, hist, calls>>

\* Mutant of GS_setcookie: the cookie written carries the value the request
\* came with, not the new id.
GS_setcookie_echo(p) ==
    /\ At(p, "GS_setcookie")
    /\ frame' = [frame EXCEPT
                    ![p].w = SetCookie(@, NewCookie(Cookie(frame[p].r, SessionKey).value))]
    /\ Goto(p, "ret")
    /\ UNCHANGED <<sessions, smut, heap, nextId, crashed, known, hist, written, calls>>

GS_setcookie(p) ==
    /\ At(p, "GS_setcookie")
    /\ frame' = [frame EXCEPT ![p].w = SetCookie(@, NewCookie(frame[p].id))]
    /\ Goto(p, "ret")
    /\ UNCHANGED <<sessions, smut, heap, nextId, crashed, known, hist, written, calls>>

\* ----------------------------------------------- MemorySessions.New
\* Declared by the Sessions interface; MemorySessions carries no body for
\* it, so this is the interface's contract: a fresh id, empty data, and no
\* entry in the store.
CallStoreNew(p) ==
    /\ At(p, "idle") /\ calls < MaxCalls /\ calls' = calls + 1 /\ CanAllocate
    /\ frame' = [frame EXCEPT ![p] = [IdleFrame EXCEPT !.op = "New"]]
    /\ Goto(p, "New_alloc")
    /\ UNCHANGED <<sessions, smut, heap, nextId, crashed, known, hist, written>>

New_alloc(p) ==
    /\ At(p, "New_alloc")
    /\ heap' = Append(heap, NewMemorySession(NewUUID))
    /\ nextId' = nextId + 1
    /\ frame' = [frame EXCEPT ![p].id = NewUUID, ![p].sess = Len(heap) + 1]
    /\ written' = Append(written, EmptyMap)
    /\ Goto(p, "ret")
    /\ UNCHANGED <<sessions, smut, crashed, known, hist, calls>>

\* ------------------------------------------------- MemorySession.Get
CallSessGet(p, ref, key) ==
    /\ At(p, "idle") /\ calls < MaxCalls /\ calls' = calls + 1
    /\ frame' = [frame EXCEPT ![p] =
                    [IdleFrame EXCEPT !.op = "SGet", !.sess = ref, !.key = key]]
    /\ Goto(p, "SGet_RLock")
    /\ UNCHANGED <<sessions, smut, heap, nextId, crashed, known, hist, written>>

\* Session.Exists, declared by the Session interface with no body in
\* MemorySession: Get with the value discarded.
CallSessExists(p, ref, key) ==
    /\ At(p, "idle") /\ calls < MaxCalls /\ calls' = calls + 1
    /\ frame' = [frame EXCEPT ![p] =
                    [IdleFrame EXCEPT !.op = "Exists", !.sess = ref, !.key = key]]
    /\ Goto(p, "SGet_RLock")
    /\ UNCHANGED <<sessions, smut, heap, nextId, crashed, known, hist, written>>

SGet_RLock(p) ==
    /\ At(p, "SGet_RLock") /\ CanRLock(heap[frame[p].sess].mut)
    /\ heap' = [heap EXCEPT ![frame[p].sess].mut = RLock(@, p)]
    /\ Goto(p, "SGet_read")
    /\ UNCHANGED <<sessions, smut, nextId, crashed, frame, known, hist, written, calls>>

SGet_read(p) ==
    /\ At(p, "SGet_read")
    /\ IF DataWriters(p, frame[p].sess) # {}
       THEN \/ crashed' = TRUE /\ frame' = frame
            \/ /\ crashed' = crashed
               /\ \E v \in Values \cup {Nil}, b \in BOOLEAN :
                      frame' = [frame EXCEPT ![p].val = v, ![p].ok = b]
       ELSE /\ crashed' = crashed
            /\ LET g == DataLookup(heap[frame[p].sess].data, frame[p].key) IN
               frame' = [frame EXCEPT ![p].val = g.v, ![p].ok = g.ok]
    /\ Goto(p, "SGet_RUnlock")
    /\ UNCHANGED <<sessions, smut, heap, nextId, known, hist, written, calls>>

SGet_RUnlock(p) ==
    /\ At(p, "SGet_RUnlock")
    /\ heap' = [heap EXCEPT ![frame[p].sess].mut = RUnlock(@, p)]
    /\ frame' = IF frame[p].op = "Exists" THEN [frame EXCEPT ![p].val = Nil] ELSE frame
    /\ Goto(p, "ret")
    /\ UNCHANGED <<sessions, smut, nextId, crashed, known, hist, written, calls>>

\* ------------------------------------------------- MemorySession.Set
CallSessSet(p, ref, key, value) ==
    /\ At(p, "idle") /\ calls < MaxCalls /\ calls' = calls + 1
    /\ frame' = [frame EXCEPT ![p] =
                    [IdleFrame EXCEPT !.op = "SSet", !.sess = ref, !.key = key,
                                      !.val = value]]
    /\ Goto(p, "SSet_Lock")
    /\ UNCHANGED <<sessions, smut, heap, nextId, crashed, known, hist, written>>
\* Mutant of SSet_Lock: the session's Set takes the lock shared, as Get does.
SSet_Lock_shared(p) ==
    /\ At(p, "SSet_Lock") /\ CanRLock(heap[frame[p].sess].mut)
    /\ heap' = [heap EXCEPT ![frame[p].sess].mut = RLock(@, p)]
    /\ Goto(p, "SSet_write")
    /\ UNCHANGED <<sessions, smut, nextId, crashed, frame, known, hist, written, calls>>

\* Mutant of SSet_Lock: the session's Set locks with the store's mutex.
SSet_Lock_store(p) ==
    /\ At(p, "SSet_Lock") /\ CanLock(smut)
    /\ smut' = Lock(smut, p)
    /\ Goto(p, "SSet_write")
    /\ UNCHANGED <<sessions, heap, nextId, crashed, frame, known, hist, written, calls>>

SSet_Lock(p) ==
    /\ At(p, "SSet_Lock") /\ CanLock(heap[frame[p].sess].mut)
    /\ heap' = [heap EXCEPT ![frame[p].sess].mut = Lock(@, p)]
    /\ Goto(p, "SSet_write")
    /\ UNCHANGED <<sessions, smut, nextId, crashed, frame, known, hist, written, calls>>

SSet_write(p) ==
    /\ At(p, "SSet_write")
    /\ LET ref == frame[p].sess IN
       IF DataWriters(p, ref) \cup DataReaders(p, ref) # {}
       THEN \/ crashed' = TRUE /\ heap' = heap
            \/ /\ crashed' = crashed
               /\ \E m \in Maps(Keys, Values) : heap' = [heap EXCEPT ![ref].data = m]
       ELSE /\ crashed' = crashed
            /\ heap' = [heap EXCEPT ![ref].data = DataStore(@, frame[p].key, frame[p].val)]
    /\ written' = [written EXCEPT ![frame[p].sess] = MapSet(@, frame[p].key, frame[p].val)]
    /\ Goto(p, "SSet_Unlock")
    /\ UNCHANGED <<sessions, smut, nextId, frame, known, hist, calls>>

SSet_Unlock(p) ==
    /\ At(p, "SSet_Unlock")
    /\ heap' = [heap EXCEPT ![frame[p].sess].mut = Unlock(@, p)]
    /\ Goto(p, "ret")
    /\ UNCHANGED <<sessions, smut, nextId, crashed, frame, known, hist, written, calls>>

\* ------------------------------------------------------------ return
\* The call returns; the caller keeps the session it was handed.
Return(p) ==
    /\ At(p, "ret")
    /\ known' = IF frame[p].op \in {"GetSession", "Get", "New"}
                   /\ frame[p].sess \in 1..Len(heap)
                THEN known \cup {frame[p].sess} ELSE known
    /\ frame' = [frame EXCEPT ![p] = IdleFrame]
    /\ Goto(p, "idle")
    /\ UNCHANGED <<sessions, smut, heap, nextId, crashed, hist, written, calls>>

SessionArgs == known \cup {ForeignSess}

Next ==
    \E p \in Procs :
        \/ \E r \in Requests : CallGetSession(p, r)
        \/ \E id \in KnownIds : CallStoreGet(p, id)
        \/ \E id \in KnownIds, s \in SessionArgs : CallStoreSet(p, id, s)
        \/ \E id \in KnownIds : CallStoreDelete(p, id)
        \/ CallStoreNew(p)
        \/ \E ref \in known, k \in Keys : CallSessGet(p, ref, k)
        \/ \E ref \in known, k \in Keys : CallSessExists(p, ref, k)
        \/ \E ref \in known, k \in Keys, v \in Values : CallSessSet(p, ref, k, v)
        \/ Get_RLock(p) \/ Get_read(p) \/ Get_RUnlock(p)
        \/ Set_Lock(p) \/ Set_write(p) \/ Set_Unlock(p)
        \/ Del_Lock(p) \/ Del_write(p) \/ Del_Unlock(p)
        \/ GS_cookie(p) \/ GS_new(p) \/ GS_setcookie(p)
        \/ New_alloc(p)
        \/ SGet_RLock(p) \/ SGet_read(p) \/ SGet_RUnlock(p)
        \/ SSet_Lock(p) \/ SSet_write(p) \/ SSet_Unlock(p)
        \/ Return(p)

Spec == Init /\ [][Next]_vars

\* Scheduling of the calls of every kind: a goroutine that can run does run,
\* and one that waits for a lock gets it when the lock is free often enough.
Run(p) ==
    \/ Get_read(p) \/ Get_RUnlock(p)
    \/ Set_write(p) \/ Set_Unlock(p)
    \/ Del_write(p) \/ Del_Unlock(p)
    \/ GS_cookie(p) \/ GS_new(p) \/ GS_setcookie(p)
    \/ New_alloc(p)
    \/ SGet_read(p) \/ SGet_RUnlock(p)
    \/ SSet_write(p) \/ SSet_Unlock(p)
    \/ Return(p)

Acquire(p) ==
    \/ Get_RLock(p) \/ Set_Lock(p) \/ Del_Lock(p)
    \/ SGet_RLock(p) \/ SSet_Lock(p)

Fairness == \A p \in Procs : WF_vars(Run(p)) /\ SF_vars(Acquire(p))

SpecFair == Init /\ [][Next]_vars /\ Fairness

\* Callers of the store alone: Get, Set, Delete and New.
NextStore ==
    \E p \in Procs :
        \/ \E id \in KnownIds : CallStoreGet(p, id)
        \/ \E id \in KnownIds, s \in SessionArgs : CallStoreSet(p, id, s)
        \/ \E id \in KnownIds : CallStoreDelete(p, id)
        \/ CallStoreNew(p)
        \/ Get_RLock(p) \/ Get_read(p) \/ Get_RUnlock(p)
        \/ Set_Lock(p) \/ Set_write(p) \/ Set_Unlock(p)
        \/ Del_Lock(p) \/ Del_write(p) \/ Del_Unlock(p)
        \/ New_alloc(p)
        \/ Return(p)

SpecStore == Init /\ [][NextStore]_vars

\* A call of the store that has started keeps running: the scheduler runs
\* every goroutine that can run, and a goroutine waiting for a sync.RWMutex
\* gets it once it is free often enough (the mutex hands over to waiters).
StoreRun(p) ==
    \/ Get_read(p) \/ Get_RUnlock(p)
    \/ Set_write(p) \/ Set_Unlock(p)
    \/ Del_write(p) \/ Del_Unlock(p)
    \/ New_alloc(p)
    \/ Return(p)

StoreAcquire(p) == Get_RLock(p) \/ Set_Lock(p) \/ Del_Lock(p)

StoreFairness == \A p \in Procs : WF_vars(StoreRun(p)) /\ SF_vars(StoreAcquire(p))

SpecStoreFair == Init /\ [][NextStore]_vars /\ StoreFairness

\* Callers of the sessions alone, on sessions obtained from New.
NextSession ==
    \E p \in Procs :
        \/ CallStoreNew(p)
        \/ \E ref \in known, k \in Keys : CallSessGet(p, ref, k)
        \/ \E ref \in known, k \in Keys : CallSessExists(p, ref, k)
        \/ \E ref \in known, k \in Keys, v \in Values : CallSessSet(p, ref, k, v)
        \/ New_alloc(p)
        \/ SGet_RLock(p) \/ SGet_read(p) \/ SGet_RUnlock(p)
        \/ SSet_Lock(p) \/ SSet_write(p) \/ SSet_Unlock(p)
        \/ Return(p)

SpecSession == Init /\ [][NextSession]_vars

\* Sessions made by New, registered in the store by Set and used by callers.
NextShared ==
    \E p \in Procs :
        \/ CallStoreNew(p)
        \/ \E id \in KnownIds, s \in SessionArgs : CallStoreSet(p, id, s)
        \/ \E ref \in known, k \in Keys : CallSessGet(p, ref, k)
        \/ \E ref \in known, k \in Keys, v \in Values : CallSessSet(p, ref, k, v)
        \/ New_alloc(p)
        \/ Set_Lock(p) \/ Set_write(p) \/ Set_Unlock(p)
        \/ SGet_RLock(p) \/ SGet_read(p) \/ SGet_RUnlock(p)
        \/ SSet_Lock(p) \/ SSet_write(p) \/ SSet_Unlock(p)
        \/ Return(p)

SpecShared == Init /\ [][NextShared]_vars

\* Request handlers: every call goes through the resolver; sessions are
\* removed with Delete.
NextResolver ==
    \E p \in Procs :
        \/ \E r \in Requests : CallGetSession(p, r)
        \/ \E id \in KnownIds : CallStoreDelete(p, id)
        \/ Get_RLock(p) \/ Get_read(p) \/ Get_RUnlock(p)
        \/ Set_Lock(p) \/ Set_write(p) \/ Set_Unlock(p)
        \/ Del_Lock(p) \/ Del_write(p) \/ Del_Unlock(p)
        \/ GS_cookie(p) \/ GS_new(p) \/ GS_setcookie(p)
        \/ Return(p)

SpecResolver == Init /\ [][NextResolver]_vars

\* ======================================================== properties
InGetSession(p) == frame[p].op = "GetSession"

\* p has returned from the call it made and the caller looks at the results.
Returned(p, op) == pc[p] = "ret" /\ frame[p].op = op

\* p has looked the id up in the store and still holds the read lock.
LookedUp(p) == pc[p] = "Get_RUnlock"

IsSession(ref) == ref \in 1..Len(heap)

Registered(id, ref) == id \in DOMAIN sessions /\ sessions[id] = ref

Fresh(id, ref) ==
    /\ id \notin Forged
    /\ \A other \in 1..Len(heap) : other # ref => heap[other].id # id

IssuedCookie(id) ==
    {[Name |-> SessionKey, Value |-> id, HttpOnly |-> TRUE, MaxAge |-> 604800]}

\* p's call takes a step.
StepOf(p) == pc'[p] # pc[p]

\* C1: a request with no cookie named sessionKey gets a new session with
\* found = false, registered in the store under a fresh id, and a response
\* cookie (sessionKey, that id, HttpOnly, max-age 604800).
C1_NoCookieCreatesSession ==
    \A p \in Procs :
        Returned(p, "GetSession") /\ Cookie(frame[p].r, SessionKey).err
        => /\ ~frame[p].ok
           /\ IsSession(frame[p].sess)
           /\ Fresh(frame[p].id, frame[p].sess)
           /\ Registered(frame[p].id, frame[p].sess)
           /\ frame[p].w = IssuedCookie(frame[p].id)

\* C2: every call of GetSession, whatever the request, returns a non-nil
\* session.
C2_AlwaysBound ==
    \A p \in Procs : Returned(p, "GetSession") => IsSession(frame[p].sess)

\* C3: when the cookie's value is a key of the store at the lookup, GetSession
\* returns the session stored under it with found = true, writes no cookie,
\* and its steps leave the store's entries as they are.
C3_LookupHit ==
    \A p \in Procs :
        InGetSession(p) /\ LookedUp(p) /\ frame[p].id \in DOMAIN sessions
        => /\ frame[p].ok
           /\ frame[p].sess = sessions[frame[p].id]
           /\ frame[p].id = Cookie(frame[p].r, SessionKey).value

C3_FoundReturn ==
    \A p \in Procs :
        Returned(p, "GetSession") /\ frame[p].ok
        => /\ IsSession(frame[p].sess)
           /\ frame[p].w = {}
           /\ frame[p].id = Cookie(frame[p].r, SessionKey).value

C3_FoundFrame ==
    \A p \in Procs :
        InGetSession(p) /\ StepOf(p) /\ (frame[p].ok \/ frame'[p].ok)
        => sessions' = sessions /\ heap' = heap

\* C3: with the cookie's value a key of the store at the lookup, GetSession
\* returns the session stored under it, found = true, no cookie written, the
\* store's entries unchanged.
C3_KnownCookie == [](C3_LookupHit /\ C3_FoundReturn) /\ [][C3_FoundFrame]_vars

C3_Witness ==
    \E p \in Procs :
        /\ Returned(p, "GetSession") /\ frame[p].ok
        /\ Registered(Cookie(frame[p].r, SessionKey).value, frame[p].sess)

\* C4: when the cookie's value is not a key of the store, GetSession returns
\* found = false and a new empty session under a fresh id other than the
\* cookie's value, registered in the store under that id, with the cookie
\* (sessionKey, new id, HttpOnly, 604800); the cookie's value never becomes
\* a key of the store.
StaleCookie(p) ==
    /\ InGetSession(p)
    /\ ~Cookie(frame[p].r, SessionKey).err
    /\ ~frame[p].ok

C4_NewSession ==
    \A p \in Procs :
        Returned(p, "GetSession") /\ StaleCookie(p)
        => /\ IsSession(frame[p].sess)
           /\ heap[frame[p].sess].data = EmptyMap
           /\ heap[frame[p].sess].id = frame[p].id
           /\ frame[p].id # Cookie(frame[p].r, SessionKey).value
           /\ Fresh(frame[p].id, frame[p].sess)
           /\ Registered(frame[p].id, frame[p].sess)
           /\ frame[p].w = IssuedCookie(frame[p].id)

C4_StaleNeverInserted ==
    \A p \in Procs :
        StaleCookie(p) /\ StepOf(p)
        => LET stale == Cookie(frame[p].r, SessionKey).value IN
           stale \notin DOMAIN sessions => stale \notin DOMAIN sessions'

\* C4: with the cookie's value no key of the store, GetSession returns a new
\* empty session, found = false, registered under a fresh id that is not the
\* cookie's value, with the cookie issued; the cookie's value is never
\* inserted as a key.
C4_UnknownCookie == []C4_NewSession /\ [][C4_StaleNeverInserted]_vars

C4_Witness ==
    \E p \in Procs :
        /\ Returned(p, "GetSession") /\ StaleCookie(p)
        /\ Registered(frame[p].id, frame[p].sess)
        /\ frame[p].w # {}

\* p has read the session's data and still holds the session's read lock.
DataRead(p) == pc[p] = "SGet_RUnlock"

\* p has written the session's data and still holds the session's lock.
DataWritten(p) == pc[p] = "SSet_Unlock"

EverSet(ref, key) == key \in DOMAIN written[ref]

\* C5: Session.Get(key) returns (value, true) for the value of the last
\* Session.Set(key, value): right after a Set the key maps to its value,
\* also when the key already had one, and a Get returns the last value set.
C5_SetThenGet ==
    \A p \in Procs :
        /\ DataWritten(p)
           => DataLookup(heap[frame[p].sess].data, frame[p].key)
                  = [v |-> frame[p].val, ok |-> TRUE]
        /\ DataRead(p) /\ frame[p].op = "SGet" /\ EverSet(frame[p].sess, frame[p].key)
           => /\ frame[p].ok
              /\ frame[p].val = written[frame[p].sess][frame[p].key]

\* A Get returned a value, and a later Set on the key has put another one.
C5_Witness ==
    \E p, q \in Procs :
        /\ Returned(q, "SGet") /\ frame[q].ok
        /\ DataWritten(p)
        /\ frame[p].sess = frame[q].sess /\ frame[p].key = frame[q].key
        /\ frame[p].val # frame[q].val

\* C6: for a key never Set on a session, Get reports found = false and so
\* does Exists; Exists and Get agree on found whenever both look at the same
\* key of the same session, and Exists hands back no value.
C6_NeverSet ==
    /\ \A p \in Procs :
           DataRead(p) /\ ~EverSet(frame[p].sess, frame[p].key)
           => ~frame[p].ok /\ frame[p].val = Nil
    /\ \A p, q \in Procs :
           /\ DataRead(p) /\ frame[p].op = "Exists"
           /\ DataRead(q) /\ frame[q].op = "SGet"
           /\ frame[p].sess = frame[q].sess /\ frame[p].key = frame[q].key
           => frame[p].ok = frame[q].ok
    /\ \A p \in Procs : Returned(p, "Exists") => frame[p].val = Nil

C6_Witness ==
    \E p, q \in Procs :
        /\ DataRead(p) /\ frame[p].op = "Exists"
        /\ DataRead(q) /\ frame[q].op = "SGet"
        /\ frame[p].sess = frame[q].sess /\ frame[p].key = frame[q].key
        /\ ~EverSet(frame[p].sess, frame[p].key)

\* The last write of the store's map on id, in lock order.
LastWrite(id) == IF id \in DOMAIN hist THEN hist[id].op ELSE "none"

\* C7: a Store.Get(id) that follows a Store.Delete(id), with no Set of the id
\* in between, returns found = false; a Delete of an absent id changes
\* nothing and fails in no way.
C7_GetAfterDelete ==
    \A p \in Procs :
        LookedUp(p) /\ LastWrite(frame[p].id) = "Delete"
        => ~frame[p].ok /\ frame[p].sess = Nil

C7_DeleteAbsent ==
    \A p \in Procs :
        /\ pc[p] = "Del_write" /\ StepOf(p)
        /\ frame[p].id \notin DOMAIN sessions
        => /\ sessions' = sessions
           /\ ~crashed'
           /\ ~frame'[p].panic
           /\ pc'[p] = "Del_Unlock"

\* C7: Delete(id) then Get(id), with no Set of id in between, finds nothing;
\* a Delete of an absent id is a no-op and no error.
C7_Delete == []C7_GetAfterDelete /\ [][C7_DeleteAbsent]_vars

\* A Get of an id whose entry a Delete has removed.
C7_Witness ==
    \E p \in Procs :
        /\ LookedUp(p) /\ LastWrite(frame[p].id) = "Delete"
        /\ hist[frame[p].id].sess # Nil

\* C8: Store.New returns a session with a fresh id and empty data and leaves
\* the store's entries alone; the id is no key of the store, and a Get of it
\* finds nothing, for as long as no Set was called with it.
C8_NewReturn ==
    \A p \in Procs :
        Returned(p, "New")
        => /\ IsSession(frame[p].sess)
           /\ heap[frame[p].sess].id = frame[p].id
           /\ heap[frame[p].sess].data = EmptyMap
           /\ Fresh(frame[p].id, frame[p].sess)
           /\ frame[p].id \notin DOMAIN sessions

C8_AbsentUntilSet ==
    /\ \A ref \in 1..Len(heap) :
           LastWrite(heap[ref].id) # "Set" => heap[ref].id \notin DOMAIN sessions
    /\ \A p \in Procs :
           LookedUp(p) /\ LastWrite(frame[p].id) # "Set" => ~frame[p].ok

C8_NewFrame ==
    \A p \in Procs :
        frame[p].op = "New" /\ StepOf(p) => sessions' = sessions /\ hist' = hist

\* C8: New returns a fresh, empty session without inserting it; a Get of its
\* id finds nothing until a Set is called with the id.
C8_New == [](C8_NewReturn /\ C8_AbsentUntilSet) /\ [][C8_NewFrame]_vars

\* A Get of the id of a session from New, before any Set of that id, while
\* the store holds other entries.
C8_Witness ==
    \E p \in Procs :
        /\ LookedUp(p) /\ frame[p].op = "Get"
        /\ \E ref \in known : heap[ref].id = frame[p].id
        /\ LastWrite(frame[p].id) = "none"
        /\ sessions # EmptyMap

\* C9: under every interleaving of store calls each call completes, and the
\* store is what the writes give when taken one at a time in the order they
\* held the lock: an id maps to the session of its last Set, or to nothing
\* when a Delete came last or nothing was written, and a Get returns the
\* entry of that moment.
C9_InLockOrder ==
    /\ ~crashed
    /\ \A id \in AllIds :
           IF LastWrite(id) = "Set"
           THEN Registered(id, hist[id].sess)
           ELSE id \notin DOMAIN sessions
    /\ \A p \in Procs :
           LookedUp(p)
           => IF LastWrite(frame[p].id) = "Set"
              THEN frame[p].ok /\ frame[p].sess = hist[frame[p].id].sess
              ELSE ~frame[p].ok /\ frame[p].sess = Nil

C9_Completes == \A p \in Procs : (pc[p] # "idle") ~> (pc[p] = "idle")

\* C9: concurrent store calls all complete and the store and every Get are
\* as if the calls ran one at a time in lock order.
C9_Linearizable == []C9_InLockOrder /\ C9_Completes

\* A Set holds the lock while another call waits for it, after a Delete.
C9_Witness ==
    \E p, q \in Procs :
        /\ pc[p] = "Set_Unlock" /\ ~frame[p].panic
        /\ pc[q] \in {"Get_RLock", "Set_Lock", "Del_Lock"}
        /\ \E id \in AllIds : LastWrite(id) = "Delete"

\* C10: an entry leaves the store only by a Delete of its id and changes only
\* by a Set of its id: from a Set of an id until a Delete of it every Get of
\* the id finds the session set, and no other step (of a Get, of a Set or
\* Delete of another id, of a session's Get or Set, of the resolver) removes
\* or replaces the entry.
C10_FoundUntilDelete ==
    /\ \A id \in AllIds : LastWrite(id) = "Set" => Registered(id, hist[id].sess)
    /\ \A p \in Procs :
           LookedUp(p) /\ LastWrite(frame[p].id) = "Set"
           => frame[p].ok /\ frame[p].sess = hist[frame[p].id].sess

C10_OnlyDeleteRemoves ==
    \A id \in DOMAIN sessions :
        /\ id \notin DOMAIN sessions'
           => \E p \in Procs :
                  pc[p] = "Del_write" /\ StepOf(p) /\ frame[p].id = id
        /\ id \in DOMAIN sessions' /\ sessions'[id] # sessions[id]
           => \E p \in Procs :
                  /\ pc[p] = "Set_write" /\ StepOf(p)
                  /\ frame[p].op = "Set" /\ frame[p].id = id

\* C10: an entry stays, and is found by every Get, from its Set until a
\* Delete of its id; no other operation removes or replaces it.
C10_Persists == []C10_FoundUntilDelete /\ [][C10_OnlyDeleteRemoves]_vars

\* A Get finds an entry after a Delete of another id and a resolver call
\* that made a further session.
C10_Witness ==
    \E p \in Procs :
        /\ LookedUp(p) /\ frame[p].op = "Get" /\ frame[p].ok
        /\ \E id \in AllIds : id # frame[p].id /\ LastWrite(id) = "Delete"
        /\ \E id \in DOMAIN sessions : id # frame[p].id

\* p holds the store's lock, in either mode.
HoldsStore(p) == p \in smut.r \cup smut.w

\* C11: Store.Set with a Session that is not the store's own type fails: the
\* call panics, no entry is inserted or replaced and the map is as it was,
\* and once the call has ended the store's lock is free of it, so that the
\* calls that follow take the lock.
C11_ForeignFails ==
    \A p \in Procs :
        pc[p] = "Set_write" /\ StepOf(p) /\ frame[p].sess = ForeignSess
        => /\ frame'[p].panic
           /\ sessions' = sessions
           /\ hist' = hist
           /\ ~crashed'

C11_LockReleased ==
    \A p \in Procs :
        /\ Returned(p, "Set") => ~HoldsStore(p)
        /\ Returned(p, "Set") => (frame[p].panic <=> frame[p].sess = ForeignSess)
        /\ pc[p] = "idle" => ~HoldsStore(p)

\* C11: a Set with a foreign Session panics, leaves the map unchanged and
\* releases the store's lock.
C11_ForeignRejected == []C11_LockReleased /\ [][C11_ForeignFails]_vars

\* A Set holds the store's lock after a Set with a foreign Session on a key
\* of the store has failed: the key kept its entry and the lock was free.
C11_Witness ==
    \E p, q \in Procs :
        /\ Returned(p, "Set") /\ frame[p].panic
        /\ frame[p].id \in DOMAIN sessions
        /\ pc[q] = "Set_write" /\ q \in smut.w

\* C12: the boolean of GetSession is true exactly when the request carried a
\* sessionKey cookie whose value was a key of the store at the resolver's
\* lookup, and false when the cookie was absent or its value was no key.
C12_AtLookup ==
    \A p \in Procs :
        InGetSession(p) /\ LookedUp(p)
        => /\ ~Cookie(frame[p].r, SessionKey).err
           /\ frame[p].ok <=> Cookie(frame[p].r, SessionKey).value \in DOMAIN sessions

C12_AbsentCookie ==
    \A p \in Procs :
        InGetSession(p) /\ Cookie(frame[p].r, SessionKey).err => ~frame[p].ok

\* The boolean is decided by the lookup and by nothing after it.
C12_DecidedByLookup ==
    \A p \in Procs :
        InGetSession(p) /\ StepOf(p) /\ pc[p] \notin {"Get_read", "ret"}
        => frame'[p].ok = frame[p].ok

\* C12: GetSession's boolean is true iff the cookie was present and its value
\* was a key of the store at the lookup.
C12_FoundIffKnown ==
    [](C12_AtLookup /\ C12_AbsentCookie) /\ [][C12_DecidedByLookup]_vars

\* Three calls have come back or are about to: one found its cookie's value
\* in the store, one did not.
C12_Witness ==
    \E p, q \in Procs :
        /\ Returned(p, "GetSession") /\ frame[p].ok
        /\ Returned(q, "GetSession") /\ ~frame[q].ok
        /\ ~Cookie(frame[q].r, SessionKey).err

\* p found no entry for its cookie's value and has made a session of its own.
Creating(p) ==
    /\ StaleCookie(p)
    /\ pc[p] \in {"Set_Lock", "Set_write", "Set_Unlock", "GS_setcookie", "ret"}

\* p's Set has written the store's map.
HasRegistered(p) == pc[p] \in {"Set_Unlock", "GS_setcookie", "ret"}

\* C13: the resolver's lookup and its create-and-register are not one atomic
\* step: between them the call holds no lock, so two requests with the same
\* cookie value that is no key of the store both see "not found", and then
\* each makes and registers a session of its own: two sessions, two entries
\* of the store, two cookies.
C13_WindowOpen ==
    \A p \in Procs :
        InGetSession(p) /\ pc[p] \in {"GS_new", "Set_Lock"} => ~HoldsStore(p)

C13_EachItsOwn ==
    \A p, q \in Procs :
        /\ p # q /\ Creating(p) /\ Creating(q)
        /\ Cookie(frame[p].r, SessionKey).value = Cookie(frame[q].r, SessionKey).value
        => /\ frame[p].sess # frame[q].sess
           /\ frame[p].id # frame[q].id
           /\ HasRegistered(p) => Registered(frame[p].id, frame[p].sess)
           /\ Returned(p, "GetSession") /\ Returned(q, "GetSession")
              => /\ frame[p].w = IssuedCookie(frame[p].id)
                 /\ frame[q].w = IssuedCookie(frame[q].id)
                 /\ frame[p].w # frame[q].w

\* C13: lookup-then-create is not atomic; two concurrent requests with the
\* same unknown cookie value end with a session, an entry and a cookie each.
C13_DoubleCreate == [](C13_WindowOpen /\ C13_EachItsOwn)

\* Two calls in flight at once with the same cookie value, both "not found",
\* both back with a session, the store holding both, the cookies differing.
C13_Witness ==
    \E p, q \in Procs :
        /\ p # q
        /\ Returned(p, "GetSession") /\ StaleCookie(p)
        /\ Returned(q, "GetSession") /\ StaleCookie(q)
        /\ Cookie(frame[p].r, SessionKey).value = Cookie(frame[q].r, SessionKey).value
        /\ Cookie(frame[p].r, SessionKey).value \notin DOMAIN sessions
        /\ frame[p].sess # frame[q].sess
        /\ Registered(frame[p].id, frame[p].sess)
        /\ Registered(frame[q].id, frame[q].sess)
        /\ frame[p].w # frame[q].w /\ frame[p].w # {} /\ frame[q].w # {}

\* p is inside the critical section of a Set or a Delete, of a Get.
InStoreWrite(p) == pc[p] \in {"Set_write", "Set_Unlock", "Del_write", "Del_Unlock"}

InStoreRead(p) == pc[p] \in {"Get_read", "Get_RUnlock"}

\* p waits for the store's lock in exclusive mode (sync.RWMutex holds new
\* readers back while a writer waits).
WaitsStoreWrite(p) == pc[p] \in {"Set_Lock", "Del_Lock"}

\* C14: Get holds the store's lock shared, Set and Delete hold it exclusive:
\* a Set or Delete inside its critical section is alone there, no Get and no
\* other writer is inside and none can enter, while Gets are inside together
\* and a Get enters whenever no writer is inside or waiting.
C14_Modes ==
    \A p \in Procs :
        /\ InStoreRead(p) => p \in smut.r /\ p \notin smut.w
        /\ InStoreWrite(p) => p \in smut.w /\ p \notin smut.r
        /\ ~InStoreRead(p) /\ ~InStoreWrite(p) => ~HoldsStore(p)

C14_WriterAlone ==
    \A p, q \in Procs :
        InStoreWrite(p) /\ q # p
        => /\ ~InStoreRead(q) /\ ~InStoreWrite(q)
           /\ ~ENABLED Get_RLock(q) /\ ~ENABLED Set_Lock(q) /\ ~ENABLED Del_Lock(q)

C14_ReadersShare ==
    \A p \in Procs :
        pc[p] = "Get_RLock" /\ (\A q \in Procs : ~InStoreWrite(q) /\ ~WaitsStoreWrite(q))
        => ENABLED Get_RLock(p)

C14_LockDiscipline == ~crashed /\ C14_Modes /\ C14_WriterAlone /\ C14_ReadersShare

\* Two Gets are inside together, reading an id that a Set has written.
C14_Witness ==
    \E p, q \in Procs :
        /\ p # q /\ InStoreRead(p) /\ InStoreRead(q)
        /\ {p, q} \subseteq smut.r
        /\ LastWrite(frame[p].id) = "Set"

\* p is in a call of a session: Get, Exists or Set.
InSessionCall(p) == frame[p].op \in {"SGet", "Exists", "SSet"}

\* p is inside the critical section of a session's Set, of a session's Get.
InDataWrite(p) == pc[p] \in {"SSet_write", "SSet_Unlock"}

InDataRead(p) == pc[p] \in {"SGet_read", "SGet_RUnlock"}

\* C15: a session's data has a lock of its own. The steps of Session.Get and
\* Session.Set never touch the store's lock nor the lock of another session;
\* a Set waits only for the calls inside the same session, whatever holds the
\* store's lock or another session's; a Get waits only for a Set of the same
\* session, inside or waiting for the lock, never for a Get.
C15_OwnLockOnly ==
    \A p \in Procs :
        InSessionCall(p) /\ StepOf(p)
        => /\ smut' = smut
           /\ \A ref \in 1..Len(heap) :
                  ref # frame[p].sess => heap'[ref].mut = heap[ref].mut

C15_NeverBlockedByOthers ==
    \A p \in Procs :
        /\ pc[p] = "SSet_Lock"
           /\ (\A q \in Procs \ {p} :
                   frame[q].sess = frame[p].sess => ~InDataWrite(q) /\ ~InDataRead(q))
           => ENABLED SSet_Lock(p)
        /\ pc[p] = "SGet_RLock"
           /\ (\A q \in Procs \ {p} :
                   frame[q].sess = frame[p].sess => ~InDataWrite(q) /\ pc[q] # "SSet_Lock")
           => ENABLED SGet_RLock(p)

\* C15: Session.Get and Session.Set use the session's own lock and no other.
C15_IndependentLocks ==
    [](~crashed /\ C15_NeverBlockedByOthers) /\ [][C15_OwnLockOnly]_vars

\* A Set is inside one session while a call is inside another session.
C15_Witness ==
    \E p, q \in Procs :
        /\ InDataWrite(p) /\ (InDataWrite(q) \/ InDataRead(q))
        /\ frame[p].sess # frame[q].sess
        /\ p \in heap[frame[p].sess].mut.w
        /\ q \in heap[frame[q].sess].mut.r \cup heap[frame[q].sess].mut.w

\* C16: with Sets and Gets of one key of one session interleaved in any way,
\* a Get returns "not found" only while no Set of the key has written, and
\* otherwise a value that a Set of the key was called with, whole: the one of
\* the last Set to have held the session's lock. Every Set writes its value
\* whole over the key and leaves the other keys alone, so the value that
\* stays is that of the Set that took the lock last.
C16_ReadsWhole ==
    \A p \in Procs :
        DataRead(p)
        => IF EverSet(frame[p].sess, frame[p].key)
           THEN /\ frame[p].ok
                /\ frame[p].val \in Values
                /\ frame[p].val = written[frame[p].sess][frame[p].key]
           ELSE ~frame[p].ok /\ frame[p].val = Nil

C16_Retained ==
    \A ref \in 1..Len(heap) :
        /\ heap[ref].data = written[ref]
        /\ \A k \in DOMAIN heap[ref].data : heap[ref].data[k] \in Values

C16_WritesWhole ==
    \A p \in Procs :
        pc[p] = "SSet_write" /\ StepOf(p)
        => LET ref == frame[p].sess IN
           /\ ~crashed'
           /\ heap'[ref].data[frame[p].key] = frame[p].val
           /\ \A k \in DOMAIN heap[ref].data :
                  k # frame[p].key => heap'[ref].data[k] = heap[ref].data[k]

\* C16: concurrent Sets and Gets of a key never tear or invent a value, and
\* the last Set in lock order wins.
C16_LastWriteWins ==
    [](~crashed /\ C16_ReadsWhole /\ C16_Retained) /\ [][C16_WritesWhole]_vars

\* Two Sets of one key with different values were in flight together: the
\* one that took the lock first is back, the other has written and the key
\* has its value.
C16_Witness ==
    \E p, q \in Procs :
        /\ Returned(p, "SSet") /\ DataWritten(q)
        /\ frame[p].sess = frame[q].sess /\ frame[p].key = frame[q].key
        /\ frame[p].val # frame[q].val
        /\ heap[frame[q].sess].data[frame[q].key] = frame[q].val

\* The id generator has produced id.
Generated(id) == id \in 1..(nextId - 1)

\* C17: with the store written by the resolver alone, every key of the store
\* is an id the generator produced on the create path; the value of a
\* request's cookie is looked up and never inserted.
C17_KeysGenerated ==
    \A id \in DOMAIN sessions : Generated(id) /\ id \notin Forged

C17_InsertedOnCreate ==
    \A id \in DOMAIN sessions' :
        id \notin DOMAIN sessions
        => \E p \in Procs :
               /\ InGetSession(p) /\ pc[p] = "Set_write" /\ StepOf(p)
               /\ id = frame[p].id
               /\ id = heap[frame[p].sess].id
               /\ Fresh(id, frame[p].sess)
               /\ id # Cookie(frame[p].r, SessionKey).value

\* C17: every key of the store came out of the id generator on the create
\* path; a cookie's value is never inserted as a key.
C17_OnlyGeneratedKeys == []C17_KeysGenerated /\ [][C17_InsertedOnCreate]_vars

\* A request came with the id of a deleted session: the lookup missed, a new
\* id was registered and the id the client sent was not put back.
C17_Witness ==
    \E p \in Procs :
        /\ Returned(p, "GetSession") /\ StaleCookie(p)
        /\ LastWrite(Cookie(frame[p].r, SessionKey).value) = "Delete"
        /\ Cookie(frame[p].r, SessionKey).value \notin DOMAIN sessions
        /\ Registered(frame[p].id, frame[p].sess)

\* The locks p holds: the store's and the sessions'.
LocksHeld(p) ==
    (IF HoldsStore(p) THEN 1 ELSE 0)
    + Cardinality({ref \in 1..Len(heap) : p \in heap[ref].mut.r \cup heap[ref].mut.w})

\* C18: a call holds no lock once it has returned and never two locks at a
\* time (GetSession has released the store's lock after its Get when it takes
\* it for Set); so the calls never deadlock, and with fair scheduling every
\* call of the store, of a session and of the resolver returns.
C18_LocksBounded ==
    \A p \in Procs :
        /\ LocksHeld(p) <= 1
        /\ pc[p] \in {"idle", "ret"} => LocksHeld(p) = 0
        /\ pc[p] \in {"GS_cookie", "Get_RLock", "GS_new", "Set_Lock", "GS_setcookie"}
           => LocksHeld(p) = 0

C18_NoDeadlock ==
    /\ ~crashed
    /\ (\E p \in Procs : pc[p] # "idle")
       => \E p \in Procs : ENABLED (Run(p) \/ Acquire(p))

C18_Completes == \A p \in Procs : (pc[p] # "idle") ~> (pc[p] = "idle")

\* C18: no lock outlives its call, no call holds two locks, no state is a
\* deadlock, and under fair scheduling every call returns.
C18_Terminates == [](C18_LocksBounded /\ C18_NoDeadlock) /\ C18_Completes

\* A GetSession waits for the store's lock to register its session, holding
\* nothing, while a session's Set holds that session's lock.
C18_Witness ==
    \E p, q \in Procs :
        /\ InGetSession(p) /\ pc[p] = "Set_Lock" /\ LocksHeld(p) = 0
        /\ InDataWrite(q) /\ LocksHeld(q) = 1

\* C19: the resolver registers a session under the session's own id, so with
\* the store written by the resolver alone and entries removed by Delete,
\* the session stored under a key k has Id() = k.
C19_KeyIsId ==
    \A k \in DOMAIN sessions : IsSession(sessions[k]) /\ Id(sessions[k]) = k

C19_RegistersOwnId ==
    \A p \in Procs :
        InGetSession(p) /\ pc[p] = "Set_write" /\ StepOf(p)
        => /\ Id(frame[p].sess) = frame[p].id
           /\ Registered(frame[p].id, frame[p].sess)'

\* C19: every entry the resolver registers is stored under the session's
\* own id: for each key k of the store the session has Id() = k.
C19_StoredUnderOwnId == []C19_KeyIsId /\ [][C19_RegistersOwnId]_vars

\* The store holds two sessions and a request has found one by its id.
C19_Witness ==
    /\ Cardinality(DOMAIN sessions) = 2
    /\ \E p \in Procs :
           /\ Returned(p, "GetSession") /\ frame[p].ok
           /\ Id(frame[p].sess) = Cookie(frame[p].r, SessionKey).value

\* GetSession made the entry of id and no Delete of id has written since.
IssuedLive(id) ==
    id \in DOMAIN hist /\ hist[id].op = "Set" /\ hist[id].origin = "GetSession"

\* The entry of id is still the session GetSession made under that id.
NotReplaced(id) == IsSession(hist[id].sess) /\ Id(hist[id].sess) = id

\* The request of p's GetSession carries the id as its cookie's value.
Carries(p, id) ==
    /\ InGetSession(p)
    /\ ~Cookie(frame[p].r, SessionKey).err
    /\ Cookie(frame[p].r, SessionKey).value = id

\* The create path hands out the session's id as the cookie's value.
C20_Issued ==
    \A p \in Procs :
        Returned(p, "GetSession") /\ StaleCookie(p)
        => /\ IsSession(frame[p].sess)
           /\ frame[p].w = IssuedCookie(Id(frame[p].sess))
           /\ IssuedLive(Id(frame[p].sess))
           /\ hist[Id(frame[p].sess)].sess = frame[p].sess

\* A request found: no cookie is written and the session carries the data
\* written to it so far.
C20_FoundQuiet ==
    \A p \in Procs :
        Returned(p, "GetSession") /\ frame[p].ok
        => /\ frame[p].w = {}
           /\ IsSession(frame[p].sess)
           /\ heap[frame[p].sess].data = written[frame[p].sess]

\* What the lookup found is what the call returns.
C20_KeptToReturn ==
    \A p \in Procs :
        InGetSession(p) /\ StepOf(p) /\ frame[p].ok /\ pc[p] # "ret"
        => frame'[p].ok /\ frame'[p].sess = frame[p].sess /\ frame'[p].w = {}

\* The claim as stated: the lookup of a request carrying an issued id, with
\* no Delete of the id since it was issued, finds the session made under it.
C20_SameInstance ==
    \A p \in Procs, id \in AllIds :
        Carries(p, id) /\ LookedUp(p) /\ IssuedLive(id)
        => /\ frame[p].ok
           /\ IsSession(frame[p].sess)
           /\ Id(frame[p].sess) = id

\* C20 as stated: after GetSession has made a session and issued its cookie,
\* a later request with the cookie's value, no Delete of the id in between,
\* gets the same session, found = true, no cookie, and the data written.
C20_RoundTrip ==
    [](C20_Issued /\ C20_SameInstance /\ C20_FoundQuiet) /\ [][C20_KeptToReturn]_vars

C20_SameUnlessReplaced ==
    \A p \in Procs, id \in AllIds :
        Carries(p, id) /\ LookedUp(p) /\ IssuedLive(id) /\ NotReplaced(id)
        => /\ frame[p].ok
           /\ frame[p].sess = hist[id].sess
           /\ Id(frame[p].sess) = id

\* C20, amended: after GetSession has made a session and issued its cookie,
\* a later request with the cookie's value, with no Delete of the id in
\* between and no Store.Set that put another session under the id, gets the
\* same session, found = true, no new cookie, and the data written to it.
C20_RoundTripUnlessReplaced ==
    [](C20_Issued /\ C20_SameUnlessReplaced /\ C20_FoundQuiet)
    /\ [][C20_KeptToReturn]_vars

\* A request came back with the session an earlier GetSession made, found,
\* no cookie written, and the session holds data set in the meantime.
C20_Witness ==
    \E p \in Procs :
        /\ Returned(p, "GetSession") /\ frame[p].ok /\ frame[p].w = {}
        /\ IssuedLive(Cookie(frame[p].r, SessionKey).value)
        /\ Id(frame[p].sess) = Cookie(frame[p].r, SessionKey).value
        /\ heap[frame[p].sess].data # EmptyMap

====
